---- MODULE Spec2Model ----
(***************************************************************************)
(* The booking core of the theatre API: the TheatreHall / Performance /    *)
(* Reservation / Ticket tables, the reservation endpoint                   *)
(* (ReservationSerializer validation and its transaction.atomic create),   *)
(* Ticket.save with its full_clean pre-check, the storage-level unique     *)
(* constraint on (performance, row, seat), the hall and performance        *)
(* endpoints (create, update, delete with cascade) and the                 *)
(* tickets_available annotation of the performance list.                   *)
(*                                                                         *)
(* The store is a relational database at READ COMMITTED with row locks:    *)
(* every row a request writes carries its transaction (txn = 0: committed, *)
(* txn = w: written by request worker w and not yet committed).  A query   *)
(* of worker w sees the committed rows and w's own rows; the unique index  *)
(* sees every row, and an insert whose key is held by another open         *)
(* transaction waits for that transaction to end.                          *)
(***************************************************************************)
EXTENDS Integers, Sequences, FiniteSets, TLC

\* ------------------------------------------------------------------ bounds
\* The booking specification (Spec): concurrent request workers, the longest
\* ticket list of a request, the largest row and seat number requested, the
\* performances and reservations ever created, the plays and show dates.
MaxWorkers == 2
MaxTickets == 2
MaxRow == 2
MaxSeat == 1
MaxPerformances == 1
MaxReservations == 2
MaxPlays == 1
MaxDates == 1
\* The catalogue specification (SpecCatalog): one request at a time, of
\* shorter ticket lists, and more performances, plays and show dates.
CatalogWorkers == 1
CatalogTickets == 1
CatalogPerformances == 2
CatalogPlays == 2
CatalogDates == 2
\* The validator on its own: one request at a time for one ticket, whose row
\* and seat run from -1 to ValidateMaxRow + 1, over halls of every shape from
\* 0 x 0 to ValidateMaxRow x ValidateMaxRow.
ValidateWorkers == 1
ValidateTickets == 1
ValidateMaxRow == 2
ValidateHalls == 1
ValidatePerformances == 1
\* Performances side by side (SpecShared): one request at a time, for up to
\* SharedTickets tickets over SharedPerformances performances that may be in
\* the same hall.
SharedWorkers == 1
SharedTickets == 2
SharedPerformances == 2
\* The play endpoints (SpecPlays): at most MaxPlayRows plays are created,
\* their titles drawn from 1..MaxTitles.
MaxPlayRows == 2
MaxTitles == 2

Workers == 1..MaxWorkers
Plays == 1..MaxPlays
Dates == 1..MaxDates

VARIABLES theatre_halls, performances, reservations, tickets,
          next_hid, next_pid, next_rid, worker,
          plays, next_play, play_response

vars == <<theatre_halls, performances, reservations, tickets,
          next_hid, next_pid, next_rid, worker,
          plays, next_play, play_response>>

\* The play table and the answer to the last request on /plays/.
playVars == <<plays, next_play, play_response>>
\* Everything else.
bookingVars == <<theatre_halls, performances, reservations, tickets,
                 next_hid, next_pid, next_rid, worker>>

\* ------------------------------------------------------------- the store
Committed(rows) == {r \in rows : r.txn = 0}
VisibleTo(rows, w) == {r \in rows : r.txn \in {0, w}}
WrittenBy(rows, w) == {r \in rows : r.txn = w}

TheatreHallById(hid) == CHOOSE h \in theatre_halls : h.id = hid
PerformanceById(pid) == CHOOSE p \in performances : p.id = pid
PerformanceExists(pid) == \E p \in performances : p.id = pid

\* TheatreHall.capacity
capacity(hall) == hall.rows * hall.seats_in_row

\* A constraint that leaves the performance out.
UniqueRowSeat == {<<"row", "seat">>}

\* Ticket.Meta.constraints: the declared unique constraints, each the tuple
\* of its fields.
TicketMetaConstraints == {<<"performance", "row", "seat">>}

\* A migration that never added the constraint.
MigrationWithoutConstraint == {}

\* The constraints the migration created in the database.
MigrationConstraints == {<<"performance", "row", "seat">>}

\* The value of a unique constraint's fields for a ticket (or ticket data).
KeyOf(t, fields) == [i \in 1..Len(fields) |-> t[fields[i]]]

\* ------------------------------------------------------------ validation
\* One error of a validation: the field it is reported on, its code, and
\* for a range error the inclusive range (lo, hi) the message states.
Error(field, code, lo, hi) == [field |-> field, code |-> code, lo |-> lo, hi |-> hi]

\* Ticket.row and Ticket.seat are PositiveIntegerFields: the field itself
\* refuses a negative number (and accepts 0).
PositiveIntegerFieldErrors(name, value) ==
  IF value < 0 THEN {Error(name, "min_value", 0, 0)} ELSE {}

\* TicketSerializer.performance, a PrimaryKeyRelatedField over
\* Performance.objects.all(): the key must be that of a stored performance.
PerformanceFieldErrors(pid) ==
  IF PerformanceExists(pid) THEN {} ELSE {Error("performance", "does_not_exist", 0, 0)}

\* A serializer with no validator derived from the unique constraint.
NoUniqueTogetherValidator(item) == {}

\* The validator a ModelSerializer derives from the model's unique
\* constraints whose fields are all serializer fields (Meta.fields has
\* performance, row and seat): a stored (committed) ticket with the same
\* values is an error on the item as a whole.
UniqueTogetherErrors(item) ==
  IF \E fields \in TicketMetaConstraints :
       \E t \in Committed(tickets) : KeyOf(t, fields) = KeyOf(item, fields)
  THEN {Error("non_field_errors", "unique", 0, 0)}
  ELSE {}

\* A validate() that looks at the seat before the row.
TicketSerializer_validateSeatFirst(row, seat, theatre_hall) ==
  IF ~(1 <= seat /\ seat <= theatre_hall.seats_in_row)
  THEN {Error("seat", "range", 1, theatre_hall.seats_in_row)}
  ELSE IF ~(1 <= row /\ row <= theatre_hall.rows)
  THEN {Error("row", "range", 1, theatre_hall.rows)}
  ELSE {}

\* A validate() that returns attrs unchecked.
TicketSerializer_validateNothing(row, seat, theatre_hall) == {}

\* TicketSerializer.validate(attrs), after `theatre_hall =
\* performance.theatre_hall`: row is checked against theatre_hall.rows, then
\* seat against theatre_hall.seats_in_row; the first one outside
\* (1, count_attrs) raises.
TicketSerializer_validate(row, seat, theatre_hall) ==
  IF ~(1 <= row /\ row <= theatre_hall.rows)
  THEN {Error("row", "range", 1, theatre_hall.rows)}
  ELSE IF ~(1 <= seat /\ seat <= theatre_hall.seats_in_row)
  THEN {Error("seat", "range", 1, theatre_hall.seats_in_row)}
  ELSE {}

\* TicketSerializer.run_validation of one item: the fields first (all their
\* errors together), then the validators, then validate().
TicketSerializer_errors(item) ==
  LET fieldErrors == PositiveIntegerFieldErrors("row", item.row)
                       \cup PositiveIntegerFieldErrors("seat", item.seat)
                       \cup PerformanceFieldErrors(item.performance)
      uniqueErrors == UniqueTogetherErrors(item)
  IN  IF fieldErrors # {} THEN fieldErrors
      ELSE IF uniqueErrors # {} THEN uniqueErrors
      ELSE TicketSerializer_validate(item.row, item.seat,
             TheatreHallById(PerformanceById(item.performance).theatre_hall))

\* A list field that lets the empty list through.
AllowEmpty(items) == TRUE

\* ReservationSerializer.tickets = TicketSerializer(many=True,
\* allow_empty=False): an empty list is refused.
NotEmpty(items) == Len(items) > 0

\* The errors of the whole list, one set per item.
ReservationSerializer_errors(items) ==
  IF ~NotEmpty(items)
  THEN <<{Error("tickets", "empty", 0, 0)}>>
  ELSE [i \in 1..Len(items) |-> TicketSerializer_errors(items[i])]

\* serializer.is_valid(): no item has an error.
NoErrors(errors) == \A i \in 1..Len(errors) : errors[i] = {}
IsValid(items) == NoErrors(ReservationSerializer_errors(items))

\* validated_data["tickets"]: each item with the Performance instance the
\* field fetched; the instance caches the theatre_hall that validate() read,
\* and Ticket.clean reads it again without a query.
ValidatedTicket(item) ==
  [row |-> item.row, seat |-> item.seat, performance |-> item.performance,
   theatre_hall |-> TheatreHallById(PerformanceById(item.performance).theatre_hall)]

ValidatedData(items) == [i \in 1..Len(items) |-> ValidatedTicket(items[i])]

\* A range check whose upper bounds are exclusive.
Ticket_cleanExclusive(row, seat, theatre_hall) ==
  IF ~(1 <= row /\ row < theatre_hall.rows)
  THEN {Error("row", "range", 1, theatre_hall.rows)}
  ELSE IF ~(1 <= seat /\ seat < theatre_hall.seats_in_row)
  THEN {Error("seat", "range", 1, theatre_hall.seats_in_row)}
  ELSE {}

\* ------------------------------------------------------ Ticket.save
\* Ticket.clean: for (row, rows) and then (seat, seats_in_row) of
\* self.performance.theatre_hall, the first value outside (1, count_attrs)
\* raises.
Ticket_clean(row, seat, theatre_hall) ==
  IF ~(1 <= row /\ row <= theatre_hall.rows)
  THEN {Error("row", "range", 1, theatre_hall.rows)}
  ELSE IF ~(1 <= seat /\ seat <= theatre_hall.seats_in_row)
  THEN {Error("seat", "range", 1, theatre_hall.seats_in_row)}
  ELSE {}

\* Model.validate_constraints over Ticket.Meta.constraints: a query, inside
\* the request's transaction, for a ticket with the same values.
ValidateConstraintsErrors(d, w) ==
  IF \E fields \in TicketMetaConstraints :
       \E t \in VisibleTo(tickets, w) : KeyOf(t, fields) = KeyOf(d, fields)
  THEN {Error("__all__", "unique", 0, 0)}
  ELSE {}

\* Ticket.full_clean, called by Ticket.save before the insert: clean_fields
\* (the numbers, and that the performance still exists), clean, and, when
\* these passed, the unique constraints.
Ticket_full_clean(d, w) ==
  LET first == PositiveIntegerFieldErrors("row", d.row)
                 \cup PositiveIntegerFieldErrors("seat", d.seat)
                 \cup PerformanceFieldErrors(d.performance)
                 \cup Ticket_clean(d.row, d.seat, d.theatre_hall)
  IN  IF first # {} THEN first ELSE ValidateConstraintsErrors(d, w)

\* An index that looks only at committed rows and at w's own: an insert
\* never waits for another open transaction.
IndexStatusCommittedOnly(d, w) ==
  IF \E fields \in MigrationConstraints :
       \E t \in VisibleTo(tickets, w) : KeyOf(t, fields) = KeyOf(d, fields)
  THEN "violation"
  ELSE "ok"

\* What the database's unique index answers to worker w's insert of d:
\* "violation" when a committed row or a row of w's own transaction holds
\* the key, "wait" when only a row of another open transaction does.
IndexStatus(d, w) ==
  IF \E fields \in MigrationConstraints :
       \E t \in VisibleTo(tickets, w) : KeyOf(t, fields) = KeyOf(d, fields)
  THEN "violation"
  ELSE IF \E fields \in MigrationConstraints :
            \E t \in tickets : KeyOf(t, fields) = KeyOf(d, fields)
  THEN "wait"
  ELSE "ok"

\* The open transactions whose rows make w's insert of d wait.
Holders(d, w) ==
  {t.txn : t \in {u \in tickets : u.txn \notin {0, w} /\
                     \E fields \in MigrationConstraints :
                        KeyOf(u, fields) = KeyOf(d, fields)}}

\* create() without the atomic block: every row is committed as written.
TxnAutocommit(w) == 0

\* transaction.atomic in ReservationSerializer.create: the rows the request
\* writes belong to its transaction until the block is left.
TxnOf(w) == w

\* Leaving the atomic block by an exception: the transaction's rows go.
RolledBack(rows, w) == rows \ WrittenBy(rows, w)

\* Leaving the atomic block normally: the transaction's rows are committed.
AfterCommit(rows, w) ==
  {IF r.txn = w THEN [r EXCEPT !.txn = 0] ELSE r : r \in rows}

\* ---------------------------------------------------------- the requests
\* A response: the HTTP status, the exception or outcome behind it, the
\* position of the ticket it arose at, the errors reported (per item for a
\* 400) and the id of the reservation created (201).
NoResult == [status |-> 0, code |-> "", index |-> 0, errors |-> <<>>, id |-> 0]
Result(status, code, index, errors, id) ==
  [status |-> status, code |-> code, index |-> index, errors |-> errors, id |-> id]

\* A request worker: where it is in the handler (pc), the ticket list it
\* was sent, validated_data, the ticket create() is at, the reservation it
\* created and, once done, its response.
Idle == [pc |-> "idle", tickets |-> <<>>, data |-> <<>>, idx |-> 0,
         reservation |-> 0, result |-> NoResult]

\* self.request.user: each worker serves the session of one user.
UserOf(w) == w

TicketInputs(rows, seats, pids) == [row : rows, seat : seats, performance : pids]
RECURSIVE ListsUpTo(_, _)
ListsUpTo(S, n) ==
  IF n = 0 THEN {<<>>}
  ELSE ListsUpTo(S, n - 1) \cup
       {Append(l, x) : l \in {m \in ListsUpTo(S, n - 1) : Len(m) = n - 1}, x \in S}
RequestInputs ==
  ListsUpTo(TicketInputs(1..MaxRow, 1..MaxSeat, 1..MaxPerformances), MaxTickets)

\* The plays on record at the start: the ones performances are given for.
SeedPlays == {[id |-> p, title |-> 1] : p \in 1..CatalogPlays}

\* The users a request on /plays/ may come from: nobody, a signed-in user,
\* a signed-in member of staff.
AnonymousUser == [is_authenticated |-> FALSE, is_staff |-> FALSE]
Member == [is_authenticated |-> TRUE, is_staff |-> FALSE]
Staff == [is_authenticated |-> TRUE, is_staff |-> TRUE]
PlayUsers == {AnonymousUser, Member, Staff}

\* No request on /plays/ answered yet.
NoPlayResponse ==
  [user |-> AnonymousUser, method |-> "", pk |-> 0, title |-> 0, status |-> 0, data |-> {}]

\* The halls on record when booking starts: hall h has h rows of MaxSeat
\* seats.
SeedHalls == {[id |-> h, rows |-> h, seats_in_row |-> MaxSeat] : h \in 1..MaxRow}

Init ==
  /\ theatre_halls = SeedHalls
  /\ performances = {}
  /\ reservations = {}
  /\ tickets = {}
  /\ next_hid = MaxRow + 1
  /\ next_pid = 1
  /\ next_rid = 1
  /\ worker = [w \in Workers |-> Idle]
  /\ plays = SeedPlays
  /\ next_play = CatalogPlays + 1
  /\ play_response = NoPlayResponse

\* POST /reservations/ up to the end of serializer.is_valid: a request the
\* serializer refuses is answered 400 at once; one it accepts goes on to
\* perform_create.
CreateReservation(w, items) ==
  /\ worker[w].pc \in {"idle", "done"}
  /\ LET errors == ReservationSerializer_errors(items)
     IN  IF NoErrors(errors)
         THEN worker' = [worker EXCEPT ![w] =
                 [pc |-> "create", tickets |-> items,
                  data |-> ValidatedData(items), idx |-> 0, reservation |-> 0,
                  result |-> NoResult]]
         ELSE worker' = [worker EXCEPT ![w] =
                 [pc |-> "done", tickets |-> items,
                  data |-> <<>>, idx |-> 0, reservation |-> 0,
                  result |-> Result(400, "ValidationError", 0, errors, 0)]]
  /\ UNCHANGED <<theatre_halls, performances, reservations, tickets,
                 next_hid, next_pid, next_rid>>
  /\ UNCHANGED playVars

\* A loop that stops one ticket short.
NextStepSkipsLast(wk, i) ==
  IF i + 1 < Len(wk.data) THEN [wk EXCEPT !.pc = "clean", !.idx = i + 1]
  ELSE [wk EXCEPT !.pc = "commit", !.idx = i]

\* Where create() goes after the reservation row (i = 0) or the i-th ticket
\* row: the next ticket's save, or the end of the atomic block.
NextStep(wk, i) ==
  IF i < Len(wk.data) THEN [wk EXCEPT !.pc = "clean", !.idx = i + 1]
  ELSE [wk EXCEPT !.pc = "commit", !.idx = i]

\* ReservationSerializer.create: Reservation.objects.create(**validated_data),
\* with the user perform_create passed to save().
ReservationCreate(w) ==
  /\ worker[w].pc = "create"
  /\ reservations' = reservations \cup
        {[id |-> next_rid, user |-> UserOf(w), txn |-> TxnOf(w)]}
  /\ next_rid' = next_rid + 1
  /\ worker' = [worker EXCEPT ![w] = NextStep([worker[w] EXCEPT !.reservation = next_rid], 0)]
  /\ UNCHANGED <<theatre_halls, performances, tickets, next_hid, next_pid>>
  /\ UNCHANGED playVars

\* The request ends with an exception raised inside the atomic block: the
\* block rolls back and the exception, which the view does not handle,
\* becomes a 500 response.
Failed(w, code, errors) ==
  /\ reservations' = RolledBack(reservations, w)
  /\ tickets' = RolledBack(tickets, w)
  /\ worker' = [worker EXCEPT ![w] =
        [pc |-> "done", tickets |-> worker[w].tickets, data |-> <<>>, idx |-> 0,
         reservation |-> worker[w].reservation,
         result |-> Result(500, code, worker[w].idx, <<errors>>, 0)]]

\* Ticket.save, first half: self.full_clean()
TicketFullClean(w) ==
  /\ worker[w].pc = "clean"
  /\ LET errors == Ticket_full_clean(worker[w].data[worker[w].idx], w)
     IN  IF errors = {}
         THEN /\ worker' = [worker EXCEPT ![w].pc = "insert"]
              /\ UNCHANGED <<reservations, tickets>>
         ELSE Failed(w, "ValidationError", errors)
  /\ UNCHANGED <<theatre_halls, performances, next_hid, next_pid, next_rid>>
  /\ UNCHANGED playVars

\* Ticket.save, second half: super().save(), the INSERT.  The database
\* checks the foreign key and the unique index; an insert that has to wait
\* for another transaction is not enabled until that transaction ends.
TicketInsert(w) ==
  /\ worker[w].pc = "insert"
  /\ LET d == worker[w].data[worker[w].idx]
     IN  IF ~PerformanceExists(d.performance)
         THEN Failed(w, "IntegrityError", {Error("performance", "foreign_key", 0, 0)})
         ELSE IF IndexStatus(d, w) = "violation"
         THEN Failed(w, "IntegrityError", {Error("__all__", "unique", 0, 0)})
         ELSE /\ IndexStatus(d, w) = "ok"
              /\ tickets' = tickets \cup
                   {[id |-> <<worker[w].reservation, worker[w].idx>>,
                     row |-> d.row, seat |-> d.seat,
                     performance |-> d.performance,
                     reservation |-> worker[w].reservation, txn |-> TxnOf(w)]}
              /\ worker' = [worker EXCEPT ![w] = NextStep(worker[w], worker[w].idx)]
              /\ UNCHANGED reservations
  /\ UNCHANGED <<theatre_halls, performances, next_hid, next_pid, next_rid>>
  /\ UNCHANGED playVars

\* The workers whose insert waits, each with a transaction it waits for.
WaitsFor ==
  {<<w, v>> \in Workers \X Workers :
     /\ worker[w].pc = "insert"
     /\ v \in Holders(worker[w].data[worker[w].idx], w)}

RECURSIVE Reaches(_, _, _)
Reaches(from, to, n) ==
  \/ <<from, to>> \in WaitsFor
  \/ /\ n > 0
     /\ \E v \in Workers : <<from, v>> \in WaitsFor /\ Reaches(v, to, n - 1)

\* The database finds transactions waiting for each other in a cycle and
\* ends one of them with an error.
DeadlockDetected(w) ==
  /\ worker[w].pc = "insert"
  /\ Reaches(w, w, MaxWorkers)
  /\ Failed(w, "OperationalError", {Error("__all__", "deadlock", 0, 0)})
  /\ UNCHANGED <<theatre_halls, performances, next_hid, next_pid, next_rid>>
  /\ UNCHANGED playVars

\* The end of the atomic block, and the 201 response.
Commit(w) ==
  /\ worker[w].pc = "commit"
  /\ reservations' = AfterCommit(reservations, w)
  /\ tickets' = AfterCommit(tickets, w)
  /\ worker' = [worker EXCEPT ![w] =
        [pc |-> "done", tickets |-> worker[w].tickets, data |-> <<>>, idx |-> 0,
         reservation |-> worker[w].reservation,
         result |-> Result(201, "Created", 0, <<>>, worker[w].reservation)]]
  /\ UNCHANGED <<theatre_halls, performances, next_hid, next_pid, next_rid>>
  /\ UNCHANGED playVars

\* ------------------------------------------------- TheatreHallViewSet
\* POST /theatre_halls/ (CreateModelMixin); rows and seats_in_row are
\* PositiveIntegerFields.
CreateTheatreHall(rows, seats_in_row) ==
  /\ PositiveIntegerFieldErrors("rows", rows) = {}
  /\ PositiveIntegerFieldErrors("seats_in_row", seats_in_row) = {}
  /\ theatre_halls' = theatre_halls \cup
        {[id |-> next_hid, rows |-> rows, seats_in_row |-> seats_in_row]}
  /\ next_hid' = next_hid + 1
  /\ UNCHANGED <<performances, reservations, tickets, next_pid, next_rid, worker>>
  /\ UNCHANGED playVars

\* ------------------------------------------------------- PlayViewSet
\* rest_framework.permissions.SAFE_METHODS
SAFE_METHODS == {"GET", "HEAD", "OPTIONS"}

\* theatre.permissions.IsAdminOrIfAuthenticatedReadOnly.has_permission: a
\* signed-in user may read, a member of staff may do anything.
IsAdminOrIfAuthenticatedReadOnly(method, user) ==
  \/ method \in SAFE_METHODS /\ user.is_authenticated
  \/ user.is_staff

\* A view set without CreateModelMixin.
PlayViewSetReadOnly(method, detail) ==
  IF method = "GET" THEN (IF detail THEN "retrieve" ELSE "list") ELSE "none"

\* The handlers the mixins of PlayViewSet bind: list and create on the
\* collection, retrieve on one play; every other method has none.
PlayViewSet(method, detail) ==
  IF method = "GET" THEN (IF detail THEN "retrieve" ELSE "list")
  ELSE IF method = "POST" /\ ~detail THEN "create"
  ELSE "none"

\* APIView.dispatch of a request on /plays/ (pk = 0) or /plays/<pk>/:
\* initial() checks the permission first (401 for nobody, 403 for a user it
\* refuses), then the handler bound to the method runs, or none is bound
\* (405).
PlayRequest(user, method, pk, title) ==
  LET handler == PlayViewSet(method, pk # 0)
      answer(status, data) ==
        [user |-> user, method |-> method, pk |-> pk, title |-> title,
         status |-> status, data |-> data]
  IN  /\ IF ~IsAdminOrIfAuthenticatedReadOnly(method, user)
         THEN /\ play_response' =
                    answer(IF user.is_authenticated THEN 403 ELSE 401, {})
              /\ UNCHANGED <<plays, next_play>>
         ELSE IF handler = "none"
         THEN /\ play_response' = answer(405, {})
              /\ UNCHANGED <<plays, next_play>>
         ELSE IF handler = "list"
         THEN /\ play_response' = answer(200, plays)
              /\ UNCHANGED <<plays, next_play>>
         ELSE IF handler = "retrieve"
         THEN /\ play_response' =
                    IF \E q \in plays : q.id = pk
                    THEN answer(200, {q \in plays : q.id = pk})
                    ELSE answer(404, {})
              /\ UNCHANGED <<plays, next_play>>
         ELSE /\ plays' = plays \cup {[id |-> next_play, title |-> title]}
              /\ next_play' = next_play + 1
              /\ play_response' = answer(201, {[id |-> next_play, title |-> title]})
      /\ UNCHANGED bookingVars

\* ------------------------------------------------- PerformanceViewSet
\* POST /performances/ (CreateModelMixin)
CreatePerformance(hall, play, show_time) ==
  /\ \E h \in theatre_halls : h.id = hall
  /\ \E q \in plays : q.id = play
  /\ performances' = performances \cup
        {[id |-> next_pid, theatre_hall |-> hall, play |-> play, show_time |-> show_time]}
  /\ next_pid' = next_pid + 1
  /\ UNCHANGED <<theatre_halls, reservations, tickets, next_hid, next_rid, worker>>
  /\ UNCHANGED playVars

\* PUT or PATCH /performances/<pid>/ (UpdateModelMixin): every field of
\* PerformanceSerializer is writable.
UpdatePerformance(pid, hall, play, show_time) ==
  /\ PerformanceExists(pid)
  /\ \E h \in theatre_halls : h.id = hall
  /\ \E q \in plays : q.id = play
  /\ performances' = (performances \ {PerformanceById(pid)}) \cup
        {[id |-> pid, theatre_hall |-> hall, play |-> play, show_time |-> show_time]}
  /\ performances' # performances
  /\ UNCHANGED <<theatre_halls, reservations, tickets, next_hid, next_pid, next_rid, worker>>
  /\ UNCHANGED playVars

\* Ticket.performance is on_delete=CASCADE: the tickets of a deleted
\* performance go with it.  Ticket.reservation's CASCADE points the other
\* way, so the reservations stay.
CascadeDelete(rows, pid) == {t \in rows : t.performance # pid}

\* DELETE /performances/<pid>/ (DestroyModelMixin).  A ticket row an open
\* transaction has inserted holds a lock on its performance, so the delete
\* waits for that transaction.
DeletePerformance(pid) ==
  /\ PerformanceExists(pid)
  /\ \A t \in tickets : t.performance = pid => t.txn = 0
  /\ performances' = performances \ {PerformanceById(pid)}
  /\ tickets' = CascadeDelete(tickets, pid)
  /\ UNCHANGED <<theatre_halls, reservations, next_hid, next_pid, next_rid, worker>>
  /\ UNCHANGED playVars

\* ------------------------------- PerformanceViewSet.get_queryset (list)
\* An absent query parameter (ids and dates start at 1).
NoParam == 0

\* The null ticket id of a performance without tickets in the outer join.
Null == <<>>

\* The date and play filters: `if date:` / `if play:` narrow the queryset
\* only when the parameter is given.
FilterPerformances(date, play) ==
  {p \in performances :
     /\ date # NoParam => p.show_time = date
     /\ play # NoParam => p.play = play}

\* Count("tickets") joins the performance to its tickets with a LEFT OUTER
\* JOIN: one row per ticket, or one row of nulls when there is none.
JoinTickets(p) ==
  IF \E t \in Committed(tickets) : t.performance = p.id
  THEN {[performance |-> p.id, ticket |-> t.id] :
          t \in {u \in Committed(tickets) : u.performance = p.id}}
  ELSE {[performance |-> p.id, ticket |-> Null]}

\* COUNT(*): every joined row counts, the row of nulls too.
CountStar(rows) == Cardinality(rows)

\* COUNT(ticket.id) over the rows of one performance: nulls do not count.
Count(rows) == Cardinality({r \in rows : r.ticket # Null})

\* The annotation: F("theatre_hall__rows") * F("theatre_hall__seats_in_row")
\* - Count("tickets")
tickets_available(p) ==
  TheatreHallById(p.theatre_hall).rows * TheatreHallById(p.theatre_hall).seats_in_row
    - Count(JoinTickets(p))

\* GET /performances/?date=&play= as PerformanceListSerializer renders it.
PerformanceList(date, play) ==
  {[id |-> p.id, show_time |-> p.show_time, play |-> p.play,
    theatre_hall_capacity |-> capacity(TheatreHallById(p.theatre_hall)),
    tickets_available |-> tickets_available(p)] : p \in FilterPerformances(date, play)}

\* ------------------------------------------------- ReservationViewSet reads
\* A queryset that is not narrowed to the requesting user.
ReservationQuerysetAll(user) == Committed(reservations)

\* ReservationViewSet.get_queryset: self.queryset.filter(user=request.user),
\* what GET /reservations/ pages through for that user.
ReservationViewSet_get_queryset(user) ==
  {r \in Committed(reservations) : r.user = user}

\* ------------------------------------------------------ specifications
\* The steps of a reservation request of one of `workers`, its ticket list
\* drawn from `inputs`.
BookingStep(workers, inputs) ==
  \/ \E w \in workers, items \in inputs : CreateReservation(w, items)
  \/ \E w \in workers : next_rid <= MaxReservations /\ ReservationCreate(w)
  \/ \E w \in workers : TicketFullClean(w)
  \/ \E w \in workers : TicketInsert(w)
  \/ \E w \in workers : Commit(w)

\* The performance endpoints, with at most maxPerf performances ever
\* created, their plays and show times drawn from `playIds` and `dates`.
PerformanceStep(maxPerf, playIds, dates) ==
  \/ \E h \in theatre_halls, play \in playIds, show_time \in dates :
        next_pid <= maxPerf /\ CreatePerformance(h.id, play, show_time)
  \/ \E p \in performances, h \in theatre_halls, play \in playIds, show_time \in dates :
        UpdatePerformance(p.id, h.id, play, show_time)
  \/ \E p \in performances : DeletePerformance(p.id)

Next ==
  \/ BookingStep(Workers, RequestInputs)
  \/ \E w \in Workers : DeadlockDetected(w)
  \/ PerformanceStep(MaxPerformances, Plays, Dates)

Spec == Init /\ [][Next]_vars

\* The catalogue: bookings one at a time over several performances that
\* differ in hall, play and show date.
CatalogInputs ==
  ListsUpTo(TicketInputs(1..MaxRow, 1..MaxSeat, 1..CatalogPerformances), CatalogTickets)

NextCatalog ==
  \/ BookingStep(1..CatalogWorkers, CatalogInputs)
  \/ PerformanceStep(CatalogPerformances, 1..CatalogPlays, 1..CatalogDates)

SpecCatalog == Init /\ [][NextCatalog]_vars

\* The validator: the halls are created through POST /theatre_halls/ in every
\* shape, a performance is put in one of them, and single tickets are asked
\* for at every row and seat around the hall's edges.
InitValidate ==
  /\ theatre_halls = {}
  /\ performances = {}
  /\ reservations = {}
  /\ tickets = {}
  /\ next_hid = 1
  /\ next_pid = 1
  /\ next_rid = 1
  /\ worker = [w \in Workers |-> Idle]
  /\ plays = SeedPlays
  /\ next_play = CatalogPlays + 1
  /\ play_response = NoPlayResponse

ValidateInputs ==
  ListsUpTo(TicketInputs((0 - 1)..(ValidateMaxRow + 1), (0 - 1)..(ValidateMaxRow + 1),
                         1..ValidatePerformances), ValidateTickets)

NextValidate ==
  \/ \E rows \in 0..ValidateMaxRow, seats_in_row \in 0..ValidateMaxRow :
        next_hid <= ValidateHalls /\ CreateTheatreHall(rows, seats_in_row)
  \/ \E h \in theatre_halls, play \in Plays, show_time \in Dates :
        next_pid <= ValidatePerformances /\ CreatePerformance(h.id, play, show_time)
  \/ BookingStep(1..ValidateWorkers, ValidateInputs)

SpecValidate == InitValidate /\ [][NextValidate]_vars

\* Performances side by side: bookings, one request at a time, of lists that
\* may mix the tickets of two performances, which are created, moved between
\* halls and deleted.
SharedInputs ==
  ListsUpTo(TicketInputs(1..MaxRow, 1..MaxSeat, 1..SharedPerformances), SharedTickets)

NextShared ==
  \/ BookingStep(1..SharedWorkers, SharedInputs)
  \/ PerformanceStep(SharedPerformances, Plays, Dates)

SpecShared == Init /\ [][NextShared]_vars

\* The play endpoints: requests of every kind of user, with every method,
\* on the collection and on single plays, existing or not.
PlayMethods == {"GET", "POST", "PUT", "DELETE"}

NextPlays ==
  \E user \in PlayUsers, method \in PlayMethods,
     pk \in 0..(CatalogPlays + MaxPlayRows), title \in 1..MaxTitles :
       /\ next_play <= CatalogPlays + MaxPlayRows \/ PlayViewSet(method, pk # 0) # "create"
       /\ PlayRequest(user, method, pk, title)

SpecPlays == Init /\ [][NextPlays]_vars

\* ------------------------------------------------------------- the claims
\* The seat a ticket (or a requested item) is for.
Triple(t) == <<t.performance, t.row, t.seat>>

\* C1: in every reachable state no two distinct persisted tickets share
\* the same (performance, row, seat).
C1_UniqueSeat ==
  \A t1, t2 \in Committed(tickets) : t1 # t2 => Triple(t1) # Triple(t2)

\* C1's case: a ticket is persisted, and the database's constraint has
\* refused another request's insert for the same seat.
C1_Witness ==
  \E t \in Committed(tickets), w \in Workers :
     /\ worker[w].pc = "done"
     /\ worker[w].result.code = "IntegrityError"
     /\ worker[w].result.errors = <<{Error("__all__", "unique", 0, 0)}>>
     /\ worker[w].reservation # t.reservation
     /\ Triple(t) = Triple(worker[w].tickets[worker[w].result.index])

\* A ticket list that names no seat twice.
Distinct(items) ==
  \A i, j \in 1..Len(items) : i # j => Triple(items[i]) # Triple(items[j])

\* A response that reports nothing but a seat conflict: the serializer's or
\* the model's unique check, the database's unique index, or a deadlock
\* between two requests taking the same seats.
OnlyConflicts(r) ==
  /\ r.status \in {400, 500}
  /\ \A i \in 1..Len(r.errors) : \A e \in r.errors[i] : e.code \in {"unique", "deadlock"}

\* Nothing of worker w's request is in the store.
PersistedNothing(w) ==
  /\ \A r \in reservations : r.txn # w
  /\ \A t \in tickets : t.txn # w
  /\ worker[w].reservation # 0 =>
        /\ \A r \in reservations : r.id # worker[w].reservation
        /\ \A t \in tickets : t.reservation # worker[w].reservation

\* Workers w and v have both answered requests that name a common seat, no
\* seat twice, and met no obstacle but each other: neither response reports
\* anything else than a conflict, the performances are still there, and no
\* third reservation holds any of the seats.
Contended(w, v) ==
  /\ w # v
  /\ worker[w].pc = "done" /\ worker[v].pc = "done"
  /\ \E i \in 1..Len(worker[w].tickets), j \in 1..Len(worker[v].tickets) :
        Triple(worker[w].tickets[i]) = Triple(worker[v].tickets[j])
  /\ \A u \in {w, v} :
        /\ Distinct(worker[u].tickets)
        /\ worker[u].result.status = 201 \/ OnlyConflicts(worker[u].result)
        /\ \A i \in 1..Len(worker[u].tickets) :
              /\ PerformanceExists(worker[u].tickets[i].performance)
              /\ \A t \in Committed(tickets) :
                    Triple(t) = Triple(worker[u].tickets[i]) =>
                       t.reservation \in {worker[w].result.id, worker[v].result.id}

HallOf(t) == TheatreHallById(PerformanceById(t.performance).theatre_hall)

\* C3: every persisted ticket's row and seat lie within the hall of its
\* performance, after any sequence of bookings and performance creations,
\* updates and deletions.
C3_RangeInvariant ==
  \A t \in Committed(tickets) :
     /\ PerformanceExists(t.performance)
     /\ 1 <= t.row /\ t.row <= HallOf(t).rows
     /\ 1 <= t.seat /\ t.seat <= HallOf(t).seats_in_row

\* C4: createReservation is all-or-nothing.  No step of a request other
\* than its successful end changes the persisted reservations and tickets,
\* and a request that ends in failure (a refused list, a range or missing
\* performance error, a conflict on any ticket) leaves none of its rows.
C4_AllOrNothing ==
  [][\A w \in Workers :
        (worker'[w] # worker[w] /\ worker'[w].result.status # 201) =>
           /\ Committed(reservations') = Committed(reservations)
           /\ Committed(tickets') = Committed(tickets)
           /\ worker'[w].pc = "done" =>
                 /\ \A r \in reservations' : r.txn # w /\ r.id # worker'[w].reservation
                 /\ \A t \in tickets' : t.txn # w /\ t.reservation # worker'[w].reservation]_vars

\* C4's case: a request failed on its last ticket after its reservation and
\* its first ticket had been inserted, and nothing of it is in the store.
C4_Witness ==
  \E w \in Workers :
     /\ worker[w].pc = "done"
     /\ worker[w].result.status = 500
     /\ worker[w].result.index = 2
     /\ worker[w].result.errors = <<{Error("__all__", "unique", 0, 0)}>>
     /\ Distinct(worker[w].tickets)
     /\ worker[w].reservation # 0
     /\ PersistedNothing(w)

\* C5: for every performance the performance list reports, under every
\* date and play filter, tickets_available is the hall's rows times its
\* seats per row minus the number of persisted tickets of that performance;
\* the list holds each performance the filter selects once.
C5_Availability ==
  \A date \in {NoParam} \cup (1..CatalogDates), play \in {NoParam} \cup (1..CatalogPlays) :
     /\ \A item \in PerformanceList(date, play) :
           \E p \in performances :
              /\ p.id = item.id
              /\ item.tickets_available =
                    TheatreHallById(p.theatre_hall).rows
                      * TheatreHallById(p.theatre_hall).seats_in_row
                      - Cardinality({t \in Committed(tickets) : t.performance = p.id})
     /\ Cardinality(PerformanceList(date, play)) =
           Cardinality({p.id : p \in FilterPerformances(date, play)})

\* C5's case: two performances share a hall and differ in play; one has
\* sold a ticket and the other none, and the list filtered by the first
\* one's play reports it alone.
C5_Witness ==
  \E p1, p2 \in performances :
     /\ p1.id # p2.id /\ p1.theatre_hall = p2.theatre_hall /\ p1.play # p2.play
     /\ \E t \in Committed(tickets) : t.performance = p1.id
     /\ \A t \in Committed(tickets) : t.performance # p2.id
     /\ {item.id : item \in PerformanceList(NoParam, p1.play)} = {p1.id}
     /\ tickets_available(p1) < tickets_available(p2)

\* C6: when createReservation succeeds, exactly one new reservation is
\* persisted, owned by the requesting user; the tickets referencing it are
\* exactly the requested (performance, row, seat) tuples, one ticket per
\* request; and no persisted reservation or ticket of anyone else is added,
\* removed or changed.
C6_ExactlyRequested ==
  [][\A w \in Workers :
        (worker'[w] # worker[w] /\ worker'[w].result.status = 201) =>
           LET items == worker'[w].tickets
               rid == worker'[w].result.id
               newR == Committed(reservations') \ Committed(reservations)
               newT == Committed(tickets') \ Committed(tickets)
           IN  /\ newR = {[id |-> rid, user |-> UserOf(w), txn |-> 0]}
               /\ {Triple(t) : t \in newT} = {Triple(items[i]) : i \in 1..Len(items)}
               /\ Cardinality(newT) = Len(items)
               /\ newT = {t \in Committed(tickets') : t.reservation = rid}
               /\ Committed(reservations) \subseteq Committed(reservations')
               /\ Committed(tickets) \subseteq Committed(tickets')]_vars

\* C6's case: a request has succeeded while another reservation held a
\* ticket; its own tickets are the ones it asked for and the other
\* reservation's ticket is still there.
C6_Witness ==
  \E w \in Workers :
     /\ worker[w].pc = "done"
     /\ worker[w].result.status = 201
     /\ Len(worker[w].tickets) >= 1
     /\ {Triple(t) : t \in {u \in Committed(tickets) : u.reservation = worker[w].result.id}}
           = {Triple(worker[w].tickets[i]) : i \in 1..Len(worker[w].tickets)}
     /\ \E r \in Committed(reservations) : r.id = worker[w].result.id /\ r.user = UserOf(w)
     /\ \E t \in Committed(tickets) : t.reservation < worker[w].result.id

\* C7: createReservation called with an empty ticket list fails with a
\* validation error (400, "empty" on the tickets field) and persists no
\* reservation and no ticket.
C7_EmptyRefused ==
  [][\A w \in Workers :
        (worker'[w] # worker[w] /\ worker'[w].tickets = <<>>) =>
           /\ worker'[w].pc = "done"
           /\ worker'[w].result.status = 400
           /\ worker'[w].result.code = "ValidationError"
           /\ worker'[w].result.errors = <<{Error("tickets", "empty", 0, 0)}>>
           /\ reservations' = reservations
           /\ tickets' = tickets]_vars

\* C7's case: an empty request has been answered, and its user holds no
\* reservation.
C7_Witness ==
  \E w \in Workers :
     /\ worker[w].pc = "done"
     /\ worker[w].tickets = <<>>
     /\ worker[w].result.status = 400
     /\ \A r \in reservations : r.user # UserOf(w)
     /\ \E v \in Workers : v # w /\ worker[v].result.status = 201

\* The range the spec gives for a seat of a hall.
InRange(row, seat, hall) ==
  /\ 1 <= row /\ row <= hall.rows
  /\ 1 <= seat /\ seat <= hall.seats_in_row

\* C8: for every requested (performance, row, seat) whose performance
\* exists, the serializer's check accepts it iff 1 <= row <= hall.rows and
\* 1 <= seat <= hall.seats_in_row; Ticket.clean gives the same answer; and
\* the answered request carries a range (or min_value) error on that item
\* iff the seat is outside the range.
C8_SeatValidator ==
  \A w \in Workers : \A i \in 1..Len(worker[w].tickets) :
     LET item == worker[w].tickets[i]
     IN  PerformanceExists(item.performance) =>
           LET hall == TheatreHallById(PerformanceById(item.performance).theatre_hall)
               res == worker[w].result
               rejected == /\ res.status = 400
                           /\ \E e \in res.errors[i] : e.code \in {"range", "min_value"}
               unknown == /\ res.status = 400
                          /\ \E e \in res.errors[i] : e.code = "does_not_exist"
           IN  /\ (TicketSerializer_validate(item.row, item.seat, hall) = {})
                     <=> InRange(item.row, item.seat, hall)
               /\ (Ticket_clean(item.row, item.seat, hall) = {})
                     <=> (TicketSerializer_validate(item.row, item.seat, hall) = {})
               /\ (worker[w].pc = "done" /\ ~unknown) =>
                     (rejected <=> ~InRange(item.row, item.seat, hall))

\* C8's case: the seat in the last row and last place of a hall has been
\* accepted and stored, and a request one row beyond it has been refused.
C8_Witness ==
  \E w \in Workers, t \in Committed(tickets) :
     /\ PerformanceExists(t.performance)
     /\ LET hall == TheatreHallById(PerformanceById(t.performance).theatre_hall)
        IN  /\ t.row = hall.rows /\ t.seat = hall.seats_in_row
            /\ worker[w].pc = "done"
            /\ worker[w].result.status = 400
            /\ Len(worker[w].tickets) = 1
            /\ worker[w].tickets[1].performance = t.performance
            /\ worker[w].tickets[1].row = hall.rows + 1
            /\ \E e \in worker[w].result.errors[1] : e.field = "row" /\ e.code = "range"

\* The requested item is for a seat that a committed ticket holds.
Held(item) == \E t \in Committed(tickets) : Triple(t) = Triple(item)

\* C9: a createReservation that asks for a (performance, row, seat) held by
\* a previously committed ticket is refused with a client error (400) whose
\* errors mark, on each such item, that the seat is taken ("unique"), and the
\* store (reservations and tickets, hence every availability figure) is left
\* unchanged.
C9_ConflictRefused ==
  [][\A w \in Workers :
        LET items == worker'[w].tickets
        IN  (/\ worker[w].pc \in {"idle", "done"}
             /\ worker'[w] # worker[w]
             /\ \E i \in 1..Len(items) : Held(items[i])) =>
               /\ worker'[w].pc = "done"
               /\ worker'[w].result.status = 400
               /\ \A i \in 1..Len(items) :
                     Held(items[i]) =>
                        Error("non_field_errors", "unique", 0, 0)
                           \in worker'[w].result.errors[i]
               /\ reservations' = reservations
               /\ tickets' = tickets
               /\ \A p \in performances : tickets_available(p)' = tickets_available(p)]_vars

\* C9's case, the spec's scenario at the model's scale: one reservation
\* holds two seats of P, a later request for one of them has been refused as
\* a conflict, and P's availability is its hall's capacity minus two.
C9_Witness ==
  \E w \in Workers, r \in Committed(reservations), p \in performances :
     /\ Cardinality({t \in Committed(tickets) :
                       t.reservation = r.id /\ t.performance = p.id}) = 2
     /\ r.user # UserOf(w)
     /\ worker[w].pc = "done"
     /\ worker[w].result.status = 400
     /\ Len(worker[w].tickets) = 1
     /\ Held(worker[w].tickets[1])
     /\ worker[w].tickets[1].performance = p.id
     /\ Error("non_field_errors", "unique", 0, 0) \in worker[w].result.errors[1]
     /\ Cardinality(Committed(tickets)) = 2
     /\ tickets_available(p) = capacity(TheatreHallById(p.theatre_hall)) - 2

\* C10: in every reachable state every persisted reservation has at least
\* one persisted ticket referencing it.
C10_ReservationHasTicket ==
  \A r \in Committed(reservations) :
     \E t \in Committed(tickets) : t.reservation = r.id

\* C11: tickets and reservations are append-only.  No step removes a
\* committed ticket or reservation or changes any of its fields (row, seat,
\* performance, reservation, owning user): the committed rows of one state
\* are all among the committed rows of the next.
C11_AppendOnly ==
  [][/\ Committed(tickets) \subseteq Committed(tickets')
     /\ Committed(reservations) \subseteq Committed(reservations')]_vars

\* The users who book: one per worker.
Users == {UserOf(w) : w \in Workers}

\* C12: reservation reads are scoped to the owner.  The list returned to a
\* user holds exactly the reservations that user created (every listed one
\* is theirs, every one they were answered 201 for is listed, and it is
\* listed for nobody else), and no step of another user's request changes
\* it.
C12_OwnerScoped ==
  [][/\ \A u \in Users :
          /\ \A r \in ReservationViewSet_get_queryset(u) : r.user = u
          /\ \A r \in Committed(reservations) :
                r.user = u => r \in ReservationViewSet_get_queryset(u)
     /\ \A w \in Workers :
          worker[w].result.status = 201 =>
             \A u \in Users :
                (\E r \in ReservationViewSet_get_queryset(u) : r.id = worker[w].result.id)
                   <=> (u = UserOf(w))
     /\ \A w \in Workers :
          worker'[w] # worker[w] =>
             \A u \in Users \ {UserOf(w)} :
                ReservationViewSet_get_queryset(u)' = ReservationViewSet_get_queryset(u)]_vars

\* C12's case: two users have each booked, and each one's list holds their
\* own reservation and not the other's.
C12_Witness ==
  \E a \in Users, b \in Users :
     /\ a # b
     /\ ReservationViewSet_get_queryset(a) # {}
     /\ ReservationViewSet_get_queryset(b) # {}
     /\ ReservationViewSet_get_queryset(a) \cap ReservationViewSet_get_queryset(b) = {}
     /\ ReservationViewSet_get_queryset(a) \cup ReservationViewSet_get_queryset(b)
           = Committed(reservations)

\* What C13 says of every request on /plays/ but a DELETE: `r` is the
\* answer, `before` and `after` the play table around the request.
PlayAccess(r, before, after) ==
  /\ ~r.user.is_authenticated => r.status = 401 /\ after = before
  /\ (r.user = Member /\ r.method = "GET" /\ r.pk = 0) =>
        r.status = 200 /\ r.data = before /\ after = before
  /\ (r.user = Member /\ r.method = "GET" /\ \E q \in before : q.id = r.pk) =>
        r.status = 200 /\ r.data = {q \in before : q.id = r.pk} /\ after = before
  /\ (r.user = Member /\ r.method = "POST") => r.status = 403 /\ after = before
  /\ (r.user = Staff /\ r.method = "POST" /\ r.pk = 0) =>
        /\ r.status = 201
        /\ \E q \in after \ before : q.title = r.title /\ after = before \cup {q}
  /\ before \subseteq after

\* C13 as stated: access control on plays, where every signed-in user's
\* DELETE is answered 405 and removes nothing.
C13_PlayAccessControl ==
  [][play_response' # play_response =>
        /\ PlayAccess(play_response', plays, plays')
        /\ (play_response'.method = "DELETE" /\ play_response'.user.is_authenticated) =>
              play_response'.status = 405 /\ plays' = plays]_vars

\* C13 amended: the same, but a DELETE is answered 405 only to a member of
\* staff; a signed-in user who is not staff is refused by the permission
\* (403) before the method is looked at.  Nobody's DELETE removes a play.
C13_PlayAccessControlAmended ==
  [][play_response' # play_response =>
        /\ PlayAccess(play_response', plays, plays')
        /\ play_response'.method = "DELETE" =>
              /\ plays' = plays
              /\ play_response'.status =
                    IF play_response'.user = Staff THEN 405
                    ELSE IF play_response'.user = Member THEN 403
                    ELSE 401]_vars

\* C13's case: staff has created a play, and a signed-in user's DELETE of
\* it has been refused; the play is still there.
C13_Witness ==
  /\ play_response.method = "DELETE"
  /\ play_response.user = Member
  /\ play_response.status = 403
  /\ play_response.pk > CatalogPlays
  /\ \E q \in plays : q.id = play_response.pk

\* C14: within one createReservation, range validation of every requested
\* ticket completes before the first write.  Whenever the request's
\* transaction holds a row of its own (a reservation or a ticket, not yet
\* committed), every requested ticket is within the hall that validation read for
\* it; and a ticket row is only ever inserted when the reservation row it
\* references has been inserted by an earlier step.
C14_ValidateBeforeWrite ==
  [][\A w \in Workers :
        LET wk == worker'[w]
        IN  /\ (WrittenBy(reservations', w) # {} \/ WrittenBy(tickets', w) # {}) =>
                 /\ Len(wk.data) = Len(wk.tickets)
                 /\ \A i \in 1..Len(wk.tickets) :
                       InRange(wk.tickets[i].row, wk.tickets[i].seat, wk.data[i].theatre_hall)
            /\ \A t \in WrittenBy(tickets', w) \ WrittenBy(tickets, w) :
                  \E r \in WrittenBy(reservations, w) : r.id = t.reservation]_vars

\* C14's case: a request for two tickets has inserted its reservation row
\* and its first ticket, and is about to save the second.
C14_Witness ==
  \E w \in Workers :
     /\ Len(worker[w].tickets) = 2
     /\ worker[w].idx = 2
     /\ worker[w].pc \in {"clean", "insert"}
     /\ \E r \in WrittenBy(reservations, w) : r.id = worker[w].reservation
     /\ Cardinality(WrittenBy(tickets, w)) = 1

\* A request refused by the serializer for something else than a taken
\* seat: a missing performance, or a row or seat out of range.
RefusedOtherwise(r) ==
  /\ r.status = 400
  /\ \E i \in 1..Len(r.errors) : \E e \in r.errors[i] : e.code # "unique"

\* C15: a single createReservation that asks twice for the same seat (the
\* performance exists, the seat is in range and nobody else has asked for
\* anything) fails as a whole with a conflict naming the seat: it is
\* answered as a refused request (400) whose errors mark a repeated item
\* as taken, and neither a ticket nor the reservation is persisted.
C15_DuplicateRefused ==
  \A w \in Workers :
     (/\ worker[w].pc = "done"
      /\ ~Distinct(worker[w].tickets)
      /\ \A v \in Workers \ {w} : worker[v].pc = "idle"
      /\ \A i \in 1..Len(worker[w].tickets) :
            PerformanceExists(worker[w].tickets[i].performance)
      /\ ~RefusedOtherwise(worker[w].result)) =>
        /\ PersistedNothing(w)
        /\ worker[w].result.status = 400
        /\ \E i, j \in 1..Len(worker[w].tickets) :
              /\ i # j
              /\ Triple(worker[w].tickets[i]) = Triple(worker[w].tickets[j])
              /\ \E e \in worker[w].result.errors[j] : e.code = "unique"

\* The range error the spec describes for (row, seat) in `hall`: on "row"
\* with (1, hall.rows) whenever the row is out of range, on "seat" with
\* (1, hall.seats_in_row) when only the seat is, none otherwise.
RangeError(row, seat, hall) ==
  IF ~(1 <= row /\ row <= hall.rows) THEN {Error("row", "range", 1, hall.rows)}
  ELSE IF ~(1 <= seat /\ seat <= hall.seats_in_row)
  THEN {Error("seat", "range", 1, hall.seats_in_row)}
  ELSE {}

\* C16: a range error names the offending field and the inclusive range
\* (1, bound) of the performance's hall: "row" with (1, hall.rows) whenever
\* the row is out of range, whatever the seat; "seat" with
\* (1, hall.seats_in_row) only when the row is in range and the seat is not.
\* This is what TicketSerializer.validate and Ticket.clean raise for every
\* requested (row, seat), and what the answer to a request carries for the
\* item whenever both numbers got past the fields' own checks (neither is
\* negative) and the performance was found.
C16_RangeErrorNames ==
  \A w \in Workers : \A i \in 1..Len(worker[w].tickets) :
     LET item == worker[w].tickets[i]
     IN  PerformanceExists(item.performance) =>
           LET hall == TheatreHallById(PerformanceById(item.performance).theatre_hall)
               res == worker[w].result
               expected == RangeError(item.row, item.seat, hall)
           IN  /\ TicketSerializer_validate(item.row, item.seat, hall) = expected
               /\ Ticket_clean(item.row, item.seat, hall) = expected
               /\ (/\ worker[w].pc = "done"
                   /\ res.status = 400
                   /\ \A e \in res.errors[i] : e.code # "does_not_exist") =>
                     /\ \A e \in res.errors[i] : e.code = "range" => res.errors[i] = expected
                     /\ (item.row >= 0 /\ item.seat >= 0 /\ expected # {}) =>
                           res.errors[i] = expected

\* C16's case, the spec's scenario at the model's scale: in a hall of
\* ValidateMaxRow rows, a request for the row after the last one, its seat
\* out of range as well, has been answered with the error on "row" and the
\* range (1, ValidateMaxRow), and nothing on "seat".
C16_Witness ==
  \E w \in Workers :
     /\ worker[w].pc = "done"
     /\ worker[w].result.status = 400
     /\ Len(worker[w].tickets) = 1
     /\ PerformanceExists(worker[w].tickets[1].performance)
     /\ LET item == worker[w].tickets[1]
            hall == TheatreHallById(PerformanceById(item.performance).theatre_hall)
        IN  /\ hall.rows = ValidateMaxRow
            /\ item.row = ValidateMaxRow + 1
            /\ item.seat = hall.seats_in_row + 1
            /\ worker[w].result.errors[1] = {Error("row", "range", 1, ValidateMaxRow)}

\* The committed tickets of performance pid.
TicketsOf(pid) == {t \in Committed(tickets) : t.performance = pid}

\* C17: bookings for different performances are independent, also when the
\* performances share a hall.  A request is refused for a taken seat only
\* if a ticket of the same performance holds that row and seat; a step of a
\* request leaves the tickets and the availability of every performance it
\* asks nothing of unchanged; and a request, also one that mixes
\* performances, is accepted only with each ticket inside the hall of its
\* own performance and gets each range error from that hall.
C17_PerformancesIndependent ==
  [][\A w \in Workers :
        worker'[w] # worker[w] =>
           LET wk == worker'[w]
               items == wk.tickets
               HallAt(i) ==
                 TheatreHallById(PerformanceById(items[i].performance).theatre_hall)
           IN  /\ \A q \in performances :
                     (\A i \in 1..Len(items) : items[i].performance # q.id) =>
                        /\ TicketsOf(q.id)' = TicketsOf(q.id)
                        /\ tickets_available(q)' = tickets_available(q)
               /\ (worker[w].pc \in {"idle", "done"} /\ wk.pc = "done") =>
                     \A i \in 1..Len(items) :
                        /\ (\E e \in wk.result.errors[i] : e.code = "unique") =>
                              \E t \in TicketsOf(items[i].performance) :
                                 t.row = items[i].row /\ t.seat = items[i].seat
                        /\ (\E e \in wk.result.errors[i] : e.code = "range") =>
                              wk.result.errors[i] =
                                 RangeError(items[i].row, items[i].seat, HallAt(i))
               /\ (/\ worker[w].pc \in {"clean", "insert"}
                   /\ wk.pc = "done"
                   /\ \E e \in wk.result.errors[1] : e.code = "unique") =>
                     \E t \in VisibleTo(tickets, w) :
                        Triple(t) = Triple(items[wk.result.index])
               /\ (worker[w].pc \in {"idle", "done"} /\ wk.pc = "create") =>
                     \A i \in 1..Len(items) :
                        /\ InRange(items[i].row, items[i].seat, HallAt(i))
                        /\ TicketsOf(items[i].performance) \cap
                              {t \in tickets : t.row = items[i].row /\ t.seat = items[i].seat}
                                 = {}]_vars

\* C17's case: one reservation holds the same row and seat for two
\* performances that are in the same hall.
C17_Witness ==
  \E t1 \in Committed(tickets), t2 \in Committed(tickets) :
     /\ t1.performance # t2.performance
     /\ t1.row = t2.row /\ t1.seat = t2.seat
     /\ t1.reservation = t2.reservation
     /\ PerformanceExists(t1.performance) /\ PerformanceExists(t2.performance)
     /\ PerformanceById(t1.performance).theatre_hall
           = PerformanceById(t2.performance).theatre_hall

\* C18: in every reachable state, for every performance p,
\* 0 <= tickets_available(p) <= rows * seats_in_row of p's hall: the tickets
\* sold for a performance never exceed its hall's capacity.
C18_AvailabilityBounds ==
  \A p \in performances :
     /\ 0 <= tickets_available(p)
     /\ tickets_available(p) <= capacity(TheatreHallById(p.theatre_hall))
     /\ Cardinality(TicketsOf(p.id)) <= capacity(TheatreHallById(p.theatre_hall))

====
